---- MODULE Spec2Model ----
(***************************************************************************)
(* Model of the symfonia gateway: the ConnectedUsers registry with its     *)
(* GatewayUser / GatewayClient objects, the BulkMessageBuilder and the     *)
(* WebSocketConnection (src/gateway/types.rs), and the HeartbeatHandler    *)
(* (src/gateway/heartbeat.rs).                                             *)
(*                                                                         *)
(* Every `.lock().await` of the source is one atomic step of the calling   *)
(* task: a tokio MutexGuard that is a temporary lives until the end of the *)
(* statement it is created in, so two statements that each lock the        *)
(* registry are two critical sections.                                     *)
(***************************************************************************)
EXTENDS Integers, Sequences, FiniteSets, TLC

\* ---------------------------------------------------------------- bounds
MaxUserId == 1
MaxCalls == 4
MaxSeq == 1
MaxHbSeq == 3
MaxHeartbeats == 2
SeqBits == 4
MaxAdded == 2
MaxFrames == 3
ChannelCapacity == 2

UserIds == 1..MaxUserId
\* Two session tokens: enough for two clients of one user to differ or to collide.
Tokens == {1, 2}
\* At most one GatewayUser or GatewayClient is constructed per call.
Objects == 1..MaxCalls
Clients == 1..MaxCalls
Tasks == {"t1", "t2"}

\* 0 stands for "no entry" (HashMap::get gives None, Weak without target)
None == 0
NoTask == "none"
\* The holder of a Mutex<GatewayUser> whose last Arc is gone: the user is dropped.
Dropped == "dropped"

VARIABLES
    inboxes,        \* ConnectedUsersInner.inboxes : user id -> outbox of a GatewayUser object
    users,          \* ConnectedUsersInner.users   : user id -> GatewayUser object
    resumeable_clients_store, \* session token -> DisconnectInfo
    userId,         \* GatewayUser.id of every constructed GatewayUser object
    clients,        \* GatewayUser.clients : session token -> GatewayClient
    userLock,       \* holder of the Mutex<GatewayUser> of every object
    parent,         \* GatewayClient.parent
    session_token,  \* GatewayClient.session_token
    clientState,    \* "none", "alive", "dying" (die running), "dead"
    last_sequence,  \* GatewayClient.last_sequence (shared Arc<Mutex<u64>>)
    seqAtDeath,     \* history: the value of last_sequence when a running die read it
    task,           \* the concurrent callers and their position in an operation
    calls           \* number of operations started so far

VARIABLES
    hbPc,             \* position of HeartbeatHandler::run
    sequence_number,  \* HeartbeatHandler.sequence_number: the client's shared last_sequence
    message_receive,  \* heartbeats unread in HeartbeatHandler.message_receive
    kill_receive,     \* a kill signal is unread in HeartbeatHandler.kill_receive
    emitted,          \* what the handler sent since it took the latest heartbeat
    heartbeat,        \* the latest heartbeat taken, with the sequence number it met
    timedOut,         \* more than 45 s have passed since last_heartbeat
    messageDisabled,  \* select!: the message branch is disabled until the select ends
    sendersDropped,   \* every sender of the heartbeat channel has been dropped
    heartbeatsSent,   \* number of heartbeats the client has sent
    sendCanFail,      \* a publish on the outbound broadcast may find no receiver
    otherKillReceivers \* tasks other than the handler that hold a kill-switch receiver

VARIABLES
    one, two,         \* arguments of compare_sequence_numbers
    comparison        \* its result

VARIABLES
    role_user_map,    \* ConnectedUsers.role_user_map : role id -> set of user ids
    inbox_senders,    \* user ids with an entry in ConnectedUsersInner.inboxes
    inbox_receivers,  \* user ids whose inbox channel still has a receiver
    b_users,          \* BulkMessageBuilder.users
    b_roles,          \* BulkMessageBuilder.roles
    b_message,        \* BulkMessageBuilder.message is Some
    bulkPc,           \* position of the builder's owner: building, inside send, done
    recipients,       \* send: the recipients the delivery loop has still to visit
    resolved,         \* history: the recipient set send resolved
    missed,           \* history: recipients whose inbox lookup gave None
    current,          \* send: the recipient whose inbox was looked up
    delivered,        \* number of messages published into each user's inbox
    bulkResult        \* what send returned

VARIABLES
    wsSenderPc,       \* position of sender_task
    wsReceiverPc,     \* position of receiver_task
    receiver_sender_task, \* frames unread by the sender task's receiver
    senderLagged,     \* the sender task's receiver has been overrun
    received,         \* frames delivered to the `receiver` of the connection's handles
    sink,             \* frames written to the WebSocket sink
    handles,          \* a WebSocketConnection handle (sender, receiver) is alive
    closePublished,   \* history: tasks whose Close frame reached the channel
    framesSent        \* number of frames the remote and the client tasks have sent

VARIABLES
    db_roles,         \* rows of the roles table: role ids
    db_member_roles,  \* rows of the member_roles table: <<user id, role id>>
    all_role_ids,     \* RoleUserMap::init: result of the roles query
    all_member_roles, \* RoleUserMap::init: result of the member_roles query
    initPc            \* position of RoleUserMap::init

VARIABLES
    payload,          \* a GatewayPayload to be serialized, or NoPayload
    json,             \* the JSON value on the wire, or NoFrame
    decoded           \* what GatewayPayload::deserialize made of the frame

regVars == <<inboxes, users, resumeable_clients_store, userId, clients, userLock,
             parent, session_token, clientState, last_sequence, seqAtDeath, task, calls>>

hbVars == <<hbPc, sequence_number, message_receive, kill_receive, emitted, heartbeat,
            timedOut, messageDisabled, sendersDropped, heartbeatsSent, sendCanFail, otherKillReceivers>>

cmpVars == <<one, two, comparison>>

bulkVars == <<role_user_map, inbox_senders, inbox_receivers, b_users, b_roles, b_message,
              bulkPc, recipients, resolved, missed, current, delivered, bulkResult>>

wsVars == <<wsSenderPc, wsReceiverPc, receiver_sender_task, senderLagged, received, sink,
            handles, closePublished, framesSent>>

roleVars == <<db_roles, db_member_roles, all_role_ids, all_member_roles, initPc>>

codecVars == <<payload, json, decoded>>

VARIABLES
    lockHolder,       \* the task that holds each tokio Mutex of the gateway, or NoTask
    lockScript,       \* the lock and unlock steps each task has still to take
    lockOp            \* the operation each task is running

lockVars == <<lockHolder, lockScript, lockOp>>

vars == <<regVars, hbVars, cmpVars, bulkVars, wsVars, roleVars, codecVars, lockVars>>

\* ------------------------------------------------------------ locks
\* The tokio Mutexes of the gateway: ConnectedUsers.store, ConnectedUsers.role_user_map
\* and the Mutex<GatewayUser> of every user.  An operation is the sequence of
\* lock and unlock steps its code takes; a tokio Mutex is not reentrant.
LockTasks == Tasks \cup {"t3"}
UserLocks == {"user1", "user2"}
Locks == {"store", "role_user_map"} \cup UserLocks

Lock(l) == [a |-> "lock", l |-> l]
Unlock(l) == [a |-> "unlock", l |-> l]

\* self.store.lock().await.<map>.<op>(..): the guard is a temporary of the statement.
StoreStatement == <<Lock("store"), Unlock("store")>>

\* register: one statement for inboxes, one for users.  new_user builds the
\* GatewayUser and locks nothing but what its call of register locks.
register_locks == StoreStatement \o StoreStatement

\* A get_user_or_new that locks the user it found while it holds the registry.
get_user_or_new_locks_LockUser ==
    {<<Lock("store"), Lock(u), Unlock(u), Unlock("store")>> : u \in UserLocks}
        \cup {StoreStatement \o register_locks}

\* get_user_or_new: a hit returns with the guard dropped at the end of the
\* function; a miss drops the guard, then calls new_user.
get_user_or_new_locks == {StoreStatement, StoreStatement \o register_locks}

\* deregister: one statement for inboxes, one for users.
deregister_locks == StoreStatement \o StoreStatement

\* inbox: self.store.lock().await.inboxes.get(&id).cloned()
inbox_locks == StoreStatement

\* new_client: user.lock().await.clients.insert(..)
new_client_locks(u) == <<Lock(u), Unlock(u)>>

\* die: parent.lock().await.clients.remove(..); deregister(parent.lock().await.deref())
\* with the parent's guard alive until deregister has returned; then the insert
\* into resumeable_clients_store.
die_locks(u) ==
    <<Lock(u), Unlock(u), Lock(u)>> \o deregister_locks \o <<Unlock(u)>> \o StoreStatement

RECURSIVE InboxLookups(_)
InboxLookups(n) == IF n = 0 THEN <<>> ELSE inbox_locks \o InboxLookups(n - 1)

\* send: `lock` on role_user_map lives until send returns; the delivery loop
\* calls connected_users.inbox for n recipients before it returns (n = 0: no
\* recipients; a failed publish returns before the remaining ones).
send_locks(n) == <<Lock("role_user_map")>> \o InboxLookups(n) \o <<Unlock("role_user_map")>>

InitLocks ==
    /\ lockHolder = [l \in Locks |-> NoTask]
    /\ lockScript = [t \in LockTasks |-> <<>>]
    /\ lockOp = [t \in LockTasks |-> "none"]

\* A task that holds no gateway lock enters an operation.
Call(t, op, script) ==
    /\ lockOp[t] = "none"
    /\ lockOp' = [lockOp EXCEPT ![t] = op]
    /\ lockScript' = [lockScript EXCEPT ![t] = script]
    /\ UNCHANGED lockHolder
    /\ UNCHANGED <<regVars, hbVars, cmpVars, bulkVars, wsVars, roleVars, codecVars>>

\* mutex.lock().await: completes when the Mutex is free.
LockAcquire(t) ==
    /\ lockScript[t] # <<>>
    /\ Head(lockScript[t]).a = "lock"
    /\ lockHolder[Head(lockScript[t]).l] = NoTask
    /\ lockHolder' = [lockHolder EXCEPT ![Head(lockScript[t]).l] = t]
    /\ lockScript' = [lockScript EXCEPT ![t] = Tail(@)]
    /\ UNCHANGED lockOp
    /\ UNCHANGED <<regVars, hbVars, cmpVars, bulkVars, wsVars, roleVars, codecVars>>

\* The guard is dropped.
LockRelease(t) ==
    /\ lockScript[t] # <<>>
    /\ Head(lockScript[t]).a = "unlock"
    /\ lockHolder[Head(lockScript[t]).l] = t
    /\ lockHolder' = [lockHolder EXCEPT ![Head(lockScript[t]).l] = NoTask]
    /\ lockScript' = [lockScript EXCEPT ![t] = Tail(@)]
    /\ UNCHANGED lockOp
    /\ UNCHANGED <<regVars, hbVars, cmpVars, bulkVars, wsVars, roleVars, codecVars>>

\* The operation returns.
Return(t) ==
    /\ lockOp[t] # "none"
    /\ lockScript[t] = <<>>
    /\ lockOp' = [lockOp EXCEPT ![t] = "none"]
    /\ UNCHANGED <<lockHolder, lockScript>>
    /\ UNCHANGED <<regVars, hbVars, cmpVars, bulkVars, wsVars, roleVars, codecVars>>

NextLocks ==
    \/ \E t \in LockTasks, s \in get_user_or_new_locks : Call(t, "get_user_or_new", s)
    \/ \E t \in LockTasks : Call(t, "new_user", register_locks)
    \/ \E t \in LockTasks, u \in UserLocks : Call(t, "new_client", new_client_locks(u))
    \/ \E t \in LockTasks : Call(t, "deregister", deregister_locks)
    \/ \E t \in LockTasks : Call(t, "inbox", inbox_locks)
    \/ \E t \in LockTasks, u \in UserLocks : Call(t, "die", die_locks(u))
    \/ \E t \in LockTasks, n \in 0..MaxAdded : Call(t, "send", send_locks(n))
    \/ \E t \in LockTasks : LockAcquire(t)
    \/ \E t \in LockTasks : LockRelease(t)
    \/ \E t \in LockTasks : Return(t)

NoInfo == [session_token |-> None, disconnected_at_sequence |-> 0, parent |-> None]

IdleTask == [op |-> "none", pc |-> "idle", id |-> None, user |-> None,
             client |-> None, info |-> NoInfo]

NoClients == [tok \in Tokens |-> None]

\* The next GatewayUser object (Arc::new) and the next GatewayClient object.
FreeObjects == {o \in Objects : userId[o] = None}
FreeClients == {c \in Clients : clientState[c] = "none"}
NewObject == CHOOSE o \in FreeObjects : \A p \in FreeObjects : o <= p
NewClientObject == CHOOSE c \in FreeClients : \A d \in FreeClients : c <= d

InitRegistry ==
    /\ inboxes = [id \in UserIds |-> None]
    /\ users = [id \in UserIds |-> None]
    /\ resumeable_clients_store = [tok \in Tokens |-> NoInfo]
    /\ userId = [o \in Objects |-> None]
    /\ clients = [o \in Objects |-> NoClients]
    /\ userLock = [o \in Objects |-> NoTask]
    /\ parent = [c \in Clients |-> None]
    /\ session_token = [c \in Clients |-> None]
    /\ clientState = [c \in Clients |-> "none"]
    /\ last_sequence = [c \in Clients |-> 0]
    /\ seqAtDeath = [c \in Clients |-> 0]
    /\ task = [t \in Tasks |-> IdleTask]
    /\ calls = 0

\* ------------------------------------------------------- ConnectedUsers

\* The Arc of a GatewayUser object exists and has left register: other tasks
\* can hold it (register returns it and has put it into users).
Published(o) ==
    /\ userId[o] # None
    /\ \A t \in Tasks : ~(task[t].user = o
                           /\ task[t].pc \in {"register_inboxes", "register_users"})

\* new_user: builds the GatewayUser (channel, empty or given client map) and
\* enters register.  Construction touches no shared state.
ConstructUser(t, id, op) ==
    /\ calls < MaxCalls
    /\ calls' = calls + 1
    /\ userId' = [userId EXCEPT ![NewObject] = id]
    /\ task' = [task EXCEPT ![t] = [IdleTask EXCEPT !.op = op, !.pc = "register_inboxes",
                                                    !.id = id, !.user = NewObject]]

\* get_user_or_new: one critical section for the lookup; on a miss the lock
\* is dropped before new_user is called.
GetUserOrNew(t, id) ==
    /\ task[t].pc = "idle"
    /\ IF users[id] # None
       THEN UNCHANGED <<task, userId, calls>>
       ELSE ConstructUser(t, id, "get_user_or_new")
    /\ UNCHANGED <<inboxes, users, resumeable_clients_store, clients, userLock, parent,
                   session_token, clientState, last_sequence, seqAtDeath>>
    /\ UNCHANGED <<hbVars, cmpVars, bulkVars, wsVars, roleVars, codecVars, lockVars>>

NewUser(t, id) ==
    /\ task[t].pc = "idle"
    /\ ConstructUser(t, id, "new_user")
    /\ UNCHANGED <<inboxes, users, resumeable_clients_store, clients, userLock, parent,
                   session_token, clientState, last_sequence, seqAtDeath>>
    /\ UNCHANGED <<hbVars, cmpVars, bulkVars, wsVars, roleVars, codecVars, lockVars>>

\* register, first statement: store.lock().await.inboxes.insert(user.id, outbox)
RegisterInboxes(t) ==
    /\ task[t].pc = "register_inboxes"
    /\ inboxes' = [inboxes EXCEPT ![task[t].id] = task[t].user]
    /\ task' = [task EXCEPT ![t].pc = "register_users"]
    /\ UNCHANGED <<users, resumeable_clients_store, userId, clients, userLock, parent,
                   session_token, clientState, last_sequence, seqAtDeath, calls>>
    /\ UNCHANGED <<hbVars, cmpVars, bulkVars, wsVars, roleVars, codecVars, lockVars>>

\* register, second statement: store.lock().await.users.insert(id, arc)
RegisterUsers(t) ==
    /\ task[t].pc = "register_users"
    /\ users' = [users EXCEPT ![task[t].id] = task[t].user]
    /\ task' = [task EXCEPT ![t] = IdleTask]
    /\ UNCHANGED <<inboxes, resumeable_clients_store, userId, clients, userLock, parent,
                   session_token, clientState, last_sequence, seqAtDeath, calls>>
    /\ UNCHANGED <<hbVars, cmpVars, bulkVars, wsVars, roleVars, codecVars, lockVars>>

\* deregister(&GatewayUser) called by a task: the reference is obtained through
\* the user's Mutex, whose guard the caller holds for the whole call.
Deregister(t, o) ==
    /\ task[t].pc = "idle"
    /\ Published(o)
    /\ userLock[o] = NoTask
    /\ calls < MaxCalls
    /\ calls' = calls + 1
    /\ userLock' = [userLock EXCEPT ![o] = t]
    /\ task' = [task EXCEPT ![t] = [IdleTask EXCEPT !.op = "deregister",
                                    !.pc = "deregister_inboxes",
                                    !.id = userId[o], !.user = o]]
    /\ UNCHANGED <<inboxes, users, resumeable_clients_store, userId, clients, parent,
                   session_token, clientState, last_sequence, seqAtDeath>>
    /\ UNCHANGED <<hbVars, cmpVars, bulkVars, wsVars, roleVars, codecVars, lockVars>>

\* deregister, first statement: store.lock().await.inboxes.remove(&user.id)
DeregisterInboxes(t) ==
    /\ task[t].pc = "deregister_inboxes"
    /\ inboxes' = [inboxes EXCEPT ![task[t].id] = None]
    /\ task' = [task EXCEPT ![t].pc = "deregister_users"]
    /\ UNCHANGED <<users, resumeable_clients_store, userId, clients, userLock, parent,
                   session_token, clientState, last_sequence, seqAtDeath, calls>>
    /\ UNCHANGED <<hbVars, cmpVars, bulkVars, wsVars, roleVars, codecVars, lockVars>>

\* deregister, second statement: store.lock().await.users.remove(&user.id);
\* the caller's guard on the user is released when the call returns.
DeregisterUsers(t) ==
    /\ task[t].pc = "deregister_users"
    /\ users' = [users EXCEPT ![task[t].id] = None]
    /\ userLock' = [userLock EXCEPT ![task[t].user] = NoTask]
    /\ task' = IF task[t].op = "die" THEN [task EXCEPT ![t].pc = "die_resume"]
                                       ELSE [task EXCEPT ![t] = IdleTask]
    /\ UNCHANGED <<inboxes, resumeable_clients_store, userId, clients, parent,
                   session_token, clientState, last_sequence, seqAtDeath, calls>>
    /\ UNCHANGED <<hbVars, cmpVars, bulkVars, wsVars, roleVars, codecVars, lockVars>>

\* new_client: builds the client and inserts it into the user's client map in
\* one critical section of the user's lock.
NewClient(t, o, tok) ==
    /\ task[t].pc = "idle"
    /\ Published(o)
    /\ userLock[o] = NoTask
    /\ calls < MaxCalls
    /\ calls' = calls + 1
    /\ parent' = [parent EXCEPT ![NewClientObject] = o]
    /\ session_token' = [session_token EXCEPT ![NewClientObject] = tok]
    /\ clientState' = [clientState EXCEPT ![NewClientObject] = "alive"]
    /\ clients' = [clients EXCEPT ![o][tok] = NewClientObject]
    /\ UNCHANGED <<inboxes, users, resumeable_clients_store, userId, userLock,
                   last_sequence, seqAtDeath, task>>
    /\ UNCHANGED <<hbVars, cmpVars, bulkVars, wsVars, roleVars, codecVars, lockVars>>

\* The client's main task stamps a dispatched event: last_sequence += 1.
\* It runs until it has seen the kill signal, so also while die is running.
BumpSequence(c) ==
    /\ clientState[c] \in {"alive", "dying"}
    /\ last_sequence[c] < MaxSeq
    /\ last_sequence' = [last_sequence EXCEPT ![c] = @ + 1]
    /\ UNCHANGED <<inboxes, users, resumeable_clients_store, userId, clients, userLock,
                   parent, session_token, clientState, seqAtDeath, task, calls>>
    /\ UNCHANGED <<hbVars, cmpVars, bulkVars, wsVars, roleVars, codecVars, lockVars>>

\* -------------------------------------------------------- GatewayClient

\* A die that records a default sequence number instead of the shared one.
DisconnectInfoOf_NoSequence(c) ==
    [session_token |-> session_token[c],
     disconnected_at_sequence |-> 0,
     parent |-> parent[c]]

\* DisconnectInfo { session_token, disconnected_at_sequence, parent }
DisconnectInfoOf(c) ==
    [session_token |-> session_token[c],
     disconnected_at_sequence |-> last_sequence[c],
     parent |-> parent[c]]

\* A strong reference to a GatewayUser object is in the registry, or in the
\* hands of a task that is constructing or registering it.
Held(o) ==
    \/ \E id \in UserIds : users[id] = o
    \/ \E t \in Tasks : task[t].user = o /\ task[t].op \notin {"none", "die"}

\* The last Arc<Mutex<GatewayUser>> of an object goes away (the callers that
\* got it from get_user_or_new have dropped it): the user and its client map
\* are dropped.  GatewayClient.parent and DisconnectInfo.parent are Weak.
DropUser(o) ==
    /\ userId[o] # None
    /\ userLock[o] = NoTask
    /\ ~Held(o)
    /\ userLock' = [userLock EXCEPT ![o] = Dropped]
    /\ clients' = [clients EXCEPT ![o] = NoClients]
    /\ UNCHANGED <<inboxes, users, resumeable_clients_store, userId, parent,
                   session_token, clientState, last_sequence, seqAtDeath, task, calls>>
    /\ UNCHANGED <<hbVars, cmpVars, bulkVars, wsVars, roleVars, codecVars, lockVars>>

\* The heartbeat task has fired the kill-switch and returned (WayOff), the
\* main task has seen the signal and returned: the kill-switch of the client
\* has no receiver left.
ClientTasksExit(c) ==
    /\ clientState[c] = "alive"
    /\ clientState' = [clientState EXCEPT ![c] = "exited"]
    /\ UNCHANGED <<inboxes, users, resumeable_clients_store, userId, clients, userLock,
                   parent, session_token, last_sequence, seqAtDeath, task, calls>>
    /\ UNCHANGED <<hbVars, cmpVars, bulkVars, wsVars, roleVars, codecVars, lockVars>>

\* die: self.kill_send.send(()).unwrap() panics when the kill-switch has no receiver
DieKill(t, c) ==
    /\ task[t].pc = "idle"
    /\ clientState[c] \in {"alive", "exited"}
    /\ calls < MaxCalls
    /\ calls' = calls + 1
    /\ clientState' = [clientState EXCEPT ![c] = IF @ = "alive" THEN "dying" ELSE @]
    /\ task' = [task EXCEPT ![t] = [IdleTask EXCEPT !.op = "die",
                                    !.pc = IF clientState[c] = "alive" THEN "die_info"
                                                                       ELSE "panicked",
                                    !.id = userId[parent[c]], !.user = parent[c],
                                    !.client = c]]
    /\ UNCHANGED <<inboxes, users, resumeable_clients_store, userId, clients, userLock,
                   parent, session_token, last_sequence, seqAtDeath>>
    /\ UNCHANGED <<hbVars, cmpVars, bulkVars, wsVars, roleVars, codecVars, lockVars>>

\* A die that takes the counter out of the shared last_sequence, leaving 0.
DieInfo_TakeSequence(t) ==
    /\ task[t].pc = "die_info"
    /\ task' = [task EXCEPT ![t].info = DisconnectInfoOf(task[t].client),
                            ![t].pc = "die_remove"]
    /\ seqAtDeath' = [seqAtDeath EXCEPT ![task[t].client] = last_sequence[task[t].client]]
    /\ last_sequence' = [last_sequence EXCEPT ![task[t].client] = 0]
    /\ UNCHANGED <<inboxes, users, resumeable_clients_store, userId, clients, userLock,
                   parent, session_token, clientState, calls>>
    /\ UNCHANGED <<hbVars, cmpVars, bulkVars, wsVars, roleVars, codecVars, lockVars>>

\* die: let disconnect_info = DisconnectInfo { .. *self.last_sequence.lock().await .. }
DieInfo(t) ==
    /\ task[t].pc = "die_info"
    /\ task' = [task EXCEPT ![t].info = DisconnectInfoOf(task[t].client),
                            ![t].pc = "die_remove"]
    /\ seqAtDeath' = [seqAtDeath EXCEPT ![task[t].client] = last_sequence[task[t].client]]
    /\ UNCHANGED <<inboxes, users, resumeable_clients_store, userId, clients, userLock,
                   parent, session_token, clientState, last_sequence, calls>>
    /\ UNCHANGED <<hbVars, cmpVars, bulkVars, wsVars, roleVars, codecVars, lockVars>>

\* die: parent.upgrade().unwrap().lock().await.clients.remove(&self.session_token);
\* the unwrap panics when the parent has been dropped.
DieRemove(t) ==
    /\ task[t].pc = "die_remove"
    /\ userLock[task[t].user] \in {NoTask, Dropped}
    /\ IF userLock[task[t].user] = Dropped
       THEN /\ task' = [task EXCEPT ![t].pc = "panicked"]
            /\ UNCHANGED clients
       ELSE /\ clients' = [clients EXCEPT
                               ![task[t].user][session_token[task[t].client]] = None]
            /\ task' = [task EXCEPT ![t].pc = "die_lock"]
    /\ UNCHANGED <<inboxes, users, resumeable_clients_store, userId, userLock, parent,
                   session_token, clientState, last_sequence, seqAtDeath, calls>>
    /\ UNCHANGED <<hbVars, cmpVars, bulkVars, wsVars, roleVars, codecVars, lockVars>>

\* die: connected_users.deregister(parent.upgrade().unwrap().lock().await.deref())
\* The guard on the parent is a temporary of the statement: it is held until
\* deregister has returned.
DieLock(t) ==
    /\ task[t].pc = "die_lock"
    /\ userLock[task[t].user] \in {NoTask, Dropped}
    /\ IF userLock[task[t].user] = Dropped
       THEN /\ task' = [task EXCEPT ![t].pc = "panicked"]
            /\ UNCHANGED userLock
       ELSE /\ userLock' = [userLock EXCEPT ![task[t].user] = t]
            /\ task' = [task EXCEPT ![t].pc = "deregister_inboxes"]
    /\ UNCHANGED <<inboxes, users, resumeable_clients_store, userId, clients, parent,
                   session_token, clientState, last_sequence, seqAtDeath, calls>>
    /\ UNCHANGED <<hbVars, cmpVars, bulkVars, wsVars, roleVars, codecVars, lockVars>>

\* die: store.lock().await.resumeable_clients_store.insert(session_token, disconnect_info)
\* die took the client by value: it is dropped when die returns.
DieResume(t) ==
    /\ task[t].pc = "die_resume"
    /\ resumeable_clients_store' =
           [resumeable_clients_store EXCEPT ![session_token[task[t].client]] = task[t].info]
    /\ clientState' = [clientState EXCEPT ![task[t].client] = "dead"]
    /\ parent' = [parent EXCEPT ![task[t].client] = None]
    /\ session_token' = [session_token EXCEPT ![task[t].client] = None]
    /\ seqAtDeath' = [seqAtDeath EXCEPT ![task[t].client] = 0]
    /\ task' = [task EXCEPT ![t] = IdleTask]
    /\ UNCHANGED <<inboxes, users, userId, clients, userLock, last_sequence, calls>>
    /\ UNCHANGED <<hbVars, cmpVars, bulkVars, wsVars, roleVars, codecVars, lockVars>>

\* ---------------------------------------------------- BulkMessageBuilder
\* The user ids U1, U2, U3 and the role ids R1, R2 of the role map
\* {R1:{U1,U2}, R2:{U2,U3}}; R3 is a role id the map has no entry for.
Snowflakes == {1, 2, 3}
RoleIds == {1, 2, 3}
ExampleRoleUserMap == (1 :> {1, 2}) @@ (2 :> {2, 3})

Range(seq) == {seq[i] : i \in 1..Len(seq)}

\* for role in roles { if let Some(users) = lock.get(role) { insert each };
\*                     for user in self.users { insert } }
Recipients(us, rs, map) ==
    UNION {(IF rs[i] \in DOMAIN map THEN map[rs[i]] ELSE {}) \cup Range(us) :
               i \in 1..Len(rs)}

\* A new builder (bulk_message_builder: Default) beside a registry of users.
InitBuilder(registered) ==
    /\ inbox_senders = registered
    /\ inbox_receivers = registered
    /\ b_users = <<>>
    /\ b_roles = <<>>
    /\ b_message = FALSE
    /\ bulkPc = "build"
    /\ recipients = {}
    /\ resolved = {}
    /\ missed = {}
    /\ current = None
    /\ delivered = [u \in Snowflakes |-> 0]
    /\ bulkResult = "none"

InitBulk(registered) ==
    /\ role_user_map = ExampleRoleUserMap
    /\ InitBuilder(registered)

\* add_user_recipients(&[u])
AddUserRecipients(u) ==
    /\ bulkPc = "build"
    /\ Len(b_users) < MaxAdded
    /\ b_users' = Append(b_users, u)
    /\ UNCHANGED <<role_user_map, inbox_senders, inbox_receivers, b_roles, b_message,
                   bulkPc, recipients, resolved, missed, current, delivered, bulkResult>>
    /\ UNCHANGED <<regVars, hbVars, cmpVars, wsVars, roleVars, codecVars, lockVars>>

\* add_role_recipients(&[r])
AddRoleRecipients(r) ==
    /\ bulkPc = "build"
    /\ Len(b_roles) < MaxAdded
    /\ b_roles' = Append(b_roles, r)
    /\ UNCHANGED <<role_user_map, inbox_senders, inbox_receivers, b_users, b_message,
                   bulkPc, recipients, resolved, missed, current, delivered, bulkResult>>
    /\ UNCHANGED <<regVars, hbVars, cmpVars, wsVars, roleVars, codecVars, lockVars>>

\* set_message(event)
SetMessage ==
    /\ bulkPc = "build"
    /\ ~b_message
    /\ b_message' = TRUE
    /\ UNCHANGED <<role_user_map, inbox_senders, inbox_receivers, b_users, b_roles,
                   bulkPc, recipients, resolved, missed, current, delivered, bulkResult>>
    /\ UNCHANGED <<regVars, hbVars, cmpVars, wsVars, roleVars, codecVars, lockVars>>

\* What send does with the recipient set it resolved under the role map's lock.
StartDelivery(rec) ==
    /\ resolved' = rec
    /\ recipients' = rec
    /\ bulkPc' = IF rec = {} THEN "done" ELSE "lookup"
    /\ bulkResult' = IF rec = {} THEN "Ok" ELSE bulkResult

\* A send that does not look at self.message before it resolves the recipients.
BulkSend_Unchecked ==
    /\ bulkPc = "build"
    /\ StartDelivery(Recipients(b_users, b_roles, role_user_map))
    /\ UNCHANGED <<role_user_map, inbox_senders, inbox_receivers, b_users, b_roles,
                   b_message, missed, current, delivered>>
    /\ UNCHANGED <<regVars, hbVars, cmpVars, wsVars, roleVars, codecVars, lockVars>>

\* send: the message check, the recipient set, the empty-set return
BulkSend ==
    /\ bulkPc = "build"
    /\ IF ~b_message
       THEN /\ bulkResult' = "No message to send"
            /\ bulkPc' = "done"
            /\ UNCHANGED <<recipients, resolved>>
       ELSE StartDelivery(Recipients(b_users, b_roles, role_user_map))
    /\ UNCHANGED <<role_user_map, inbox_senders, inbox_receivers, b_users, b_roles,
                   b_message, missed, current, delivered>>
    /\ UNCHANGED <<regVars, hbVars, cmpVars, wsVars, roleVars, codecVars, lockVars>>

\* The loop goes to its next recipient, or ends: Ok(()).
NextRecipient(rest) ==
    /\ recipients' = rest
    /\ bulkPc' = IF rest = {} THEN "done" ELSE "lookup"
    /\ bulkResult' = IF rest = {} THEN "Ok" ELSE bulkResult

\* for recipient in recipients.iter(): connected_users.inbox(*recipient).await;
\* a HashSet is iterated in an order the program does not choose.
BulkLookup(r) ==
    /\ bulkPc = "lookup"
    /\ r \in recipients
    /\ IF r \in inbox_senders
       THEN /\ current' = r
            /\ bulkPc' = "publish"
            /\ UNCHANGED <<recipients, missed, bulkResult>>
       ELSE /\ missed' = missed \cup {r}
            /\ NextRecipient(recipients \ {r})
            /\ UNCHANGED current
    /\ UNCHANGED <<role_user_map, inbox_senders, inbox_receivers, b_users, b_roles,
                   b_message, resolved, delivered>>
    /\ UNCHANGED <<regVars, hbVars, cmpVars, wsVars, roleVars, codecVars, lockVars>>

\* inbox.send(message).map_err(..)? : Err when the channel has no receiver
BulkPublish ==
    /\ bulkPc = "publish"
    /\ IF current \in inbox_receivers
       THEN /\ delivered' = [delivered EXCEPT ![current] = @ + 1]
            /\ NextRecipient(recipients \ {current})
       ELSE /\ bulkResult' = "tokio broadcast error"
            /\ bulkPc' = "done"
            /\ UNCHANGED <<recipients, delivered>>
    /\ UNCHANGED <<role_user_map, inbox_senders, inbox_receivers, b_users, b_roles,
                   b_message, resolved, missed, current>>
    /\ UNCHANGED <<regVars, hbVars, cmpVars, wsVars, roleVars, codecVars, lockVars>>

\* Another task deregisters a user while send runs: its inbox leaves the
\* registry.  (A deregistration before send is an initial registry without the user.)
BulkDeregister(u) ==
    /\ bulkPc \in {"lookup", "publish"}
    /\ u \in inbox_senders
    /\ inbox_senders' = inbox_senders \ {u}
    /\ UNCHANGED <<role_user_map, inbox_receivers, b_users, b_roles, b_message, bulkPc,
                   recipients, resolved, missed, current, delivered, bulkResult>>
    /\ UNCHANGED <<regVars, hbVars, cmpVars, wsVars, roleVars, codecVars, lockVars>>

\* The last Arc of a deregistered GatewayUser is dropped, and with it the
\* receivers of its inbox channel.
BulkDropUser(u) ==
    /\ bulkPc \in {"lookup", "publish"}
    /\ u \notin inbox_senders
    /\ u \in inbox_receivers
    /\ inbox_receivers' = inbox_receivers \ {u}
    /\ UNCHANGED <<role_user_map, inbox_senders, b_users, b_roles, b_message, bulkPc,
                   recipients, resolved, missed, current, delivered, bulkResult>>
    /\ UNCHANGED <<regVars, hbVars, cmpVars, wsVars, roleVars, codecVars, lockVars>>

\* --------------------------------------------------- WebSocketConnection
\* The frames on the connection's channel: "In" was read from the stream,
\* "Out" was sent on a handle's `sender` for the remote, "Close" is the
\* Close(Error, "Channel closed or error encountered") of the two tasks.
\* A task that has returned is at the cause of its return: "sink_failed" or
\* "recv_failed" (sender task), "stream_ended", "stream_failed" or
\* "send_failed" (receiver task).
InitWS ==
    /\ wsSenderPc = "recv"
    /\ wsReceiverPc = "next"
    /\ receiver_sender_task = <<>>
    /\ senderLagged = FALSE
    /\ received = <<>>
    /\ sink = <<>>
    /\ handles = TRUE
    /\ closePublished = {}
    /\ framesSent = 0

\* broadcast::Sender::send gives Err when the channel has no receiver: the
\* receivers are the `receiver` of the live handles and receiver_sender_task,
\* which lives as long as the sender task runs.
HasReceiver == handles \/ wsSenderPc = "recv"

\* A frame sent on the one channel of new() reaches every receiver; a
\* receiver with ChannelCapacity unread frames loses its oldest and lags.
Deliver(frame) ==
    /\ received' = IF handles THEN Append(received, frame) ELSE received
    /\ IF wsSenderPc # "recv"
       THEN UNCHANGED <<receiver_sender_task, senderLagged>>
       ELSE IF Len(receiver_sender_task) >= ChannelCapacity
            THEN /\ receiver_sender_task' = Append(Tail(receiver_sender_task), frame)
                 /\ senderLagged' = TRUE
            ELSE /\ receiver_sender_task' = Append(receiver_sender_task, frame)
                 /\ UNCHANGED senderLagged

\* A task of the client sends a frame for the remote on its handle's `sender`.
WsSend ==
    /\ handles
    /\ framesSent < MaxFrames
    /\ framesSent' = framesSent + 1
    /\ Deliver("Out")
    /\ UNCHANGED <<wsSenderPc, wsReceiverPc, sink, handles, closePublished>>
    /\ UNCHANGED <<regVars, hbVars, cmpVars, bulkVars, roleVars, codecVars, lockVars>>

\* Every handle of the connection is dropped; the spawned tasks are detached.
WsDropHandles ==
    /\ handles
    /\ handles' = FALSE
    /\ UNCHANGED <<wsSenderPc, wsReceiverPc, receiver_sender_task, senderLagged, received,
                   sink, closePublished, framesSent>>
    /\ UNCHANGED <<regVars, hbVars, cmpVars, bulkVars, roleVars, codecVars, lockVars>>

\* sender_task: Ok(msg) = receiver_sender_task.recv() => sink.send(msg);
\* on Err the task sends Close on the channel and returns.
WsSenderForward ==
    /\ wsSenderPc = "recv"
    /\ ~senderLagged
    /\ receiver_sender_task # <<>>
    /\ \E ok \in BOOLEAN :
           IF ok
           THEN /\ sink' = Append(sink, Head(receiver_sender_task))
                /\ receiver_sender_task' = Tail(receiver_sender_task)
                /\ UNCHANGED <<wsSenderPc, received, closePublished>>
           ELSE /\ wsSenderPc' = "sink_failed"
                /\ received' = IF handles THEN Append(received, "Close") ELSE received
                /\ closePublished' = closePublished \cup {"sender"}
                /\ receiver_sender_task' = <<>>
                /\ UNCHANGED sink
    /\ UNCHANGED <<wsReceiverPc, senderLagged, handles, framesSent>>
    /\ UNCHANGED <<regVars, hbVars, cmpVars, bulkVars, roleVars, codecVars, lockVars>>

\* sender_task: Err(_) = receiver_sender_task.recv() => return
WsSenderRecvError ==
    /\ wsSenderPc = "recv"
    /\ senderLagged
    /\ wsSenderPc' = "recv_failed"
    /\ receiver_sender_task' = <<>>
    /\ UNCHANGED <<wsReceiverPc, senderLagged, received, sink, handles, closePublished,
                   framesSent>>
    /\ UNCHANGED <<regVars, hbVars, cmpVars, bulkVars, roleVars, codecVars, lockVars>>

WsSenderTask == WsSenderForward \/ WsSenderRecvError

\* receiver_task: Some(Ok(message)) = stream.next() => sender_receiver_task.send(message);
\* when that send fails, so does the send of Close, and the task returns.
WsStreamFrame ==
    /\ wsReceiverPc = "next"
    /\ framesSent < MaxFrames
    /\ framesSent' = framesSent + 1
    /\ IF HasReceiver
       THEN /\ Deliver("In")
            /\ UNCHANGED wsReceiverPc
       ELSE /\ wsReceiverPc' = "send_failed"
            /\ UNCHANGED <<receiver_sender_task, senderLagged, received>>
    /\ UNCHANGED <<wsSenderPc, sink, handles, closePublished>>
    /\ UNCHANGED <<regVars, hbVars, cmpVars, bulkVars, roleVars, codecVars, lockVars>>

\* The receiver task sends Close on the channel and returns.
CloseAndReturn(exit) ==
    /\ wsReceiverPc' = exit
    /\ IF HasReceiver
       THEN /\ Deliver("Close")
            /\ closePublished' = closePublished \cup {"receiver"}
       ELSE UNCHANGED <<receiver_sender_task, senderLagged, received, closePublished>>

\* receiver_task: Some(Err(e)) = stream.next()
WsStreamError ==
    /\ wsReceiverPc = "next"
    /\ CloseAndReturn("stream_failed")
    /\ UNCHANGED <<wsSenderPc, sink, handles, framesSent>>
    /\ UNCHANGED <<regVars, hbVars, cmpVars, bulkVars, roleVars, codecVars, lockVars>>

\* A receiver task that returns at the end of the stream without a Close frame.
WsStreamEnd_Silent ==
    /\ wsReceiverPc = "next"
    /\ wsReceiverPc' = "stream_ended"
    /\ UNCHANGED <<wsSenderPc, receiver_sender_task, senderLagged, received, sink, handles,
                   closePublished, framesSent>>
    /\ UNCHANGED <<regVars, hbVars, cmpVars, bulkVars, roleVars, codecVars, lockVars>>

\* receiver_task: None = stream.next()
WsStreamEnd ==
    /\ wsReceiverPc = "next"
    /\ CloseAndReturn("stream_ended")
    /\ UNCHANGED <<wsSenderPc, sink, handles, framesSent>>
    /\ UNCHANGED <<regVars, hbVars, cmpVars, bulkVars, roleVars, codecVars, lockVars>>

\* ------------------------------------------------------------ RoleUserMap
\* The role ids and user ids of the rows of the database.
DbRoleIds == {1, 2}
DbUserIds == {1, 2}

NoRoles == <<>>

\* member_roles.role_id is a foreign key into roles.
ForeignKey(roles, pairs) == \A pr \in pairs : pr[2] \in roles

InitDb(roles, pairs) ==
    /\ db_roles = roles
    /\ db_member_roles = pairs
    /\ all_role_ids = {}
    /\ all_member_roles = {}
    /\ initPc = "start"

InitRoles == InitDb({}, {})

\* An init that does not put the queried role ids into the map.
InsertRoles_Skip(map, roles) == map

\* for role_id in all_role_ids { self.map.insert(role_id, HashSet::new()) }
InsertRoles(map, roles) ==
    [r \in DOMAIN map \cup roles |-> IF r \in roles THEN {} ELSE map[r]]

\* An init that inserts the user of every pair into every role.
InsertMembers_AnyRole(map, pairs) ==
    [r \in DOMAIN map |-> map[r] \cup {pr[1] : pr \in pairs}]

\* for (user_id, role_id) in all_member_roles { self.map.get_mut(role_id).unwrap().insert(user_id) }
InsertMembers(map, pairs) ==
    [r \in DOMAIN map |-> map[r] \cup {pr[1] : pr \in {q \in pairs : q[2] = r}}]

\* init: SELECT id FROM roles (Err(Sqlx) returns), then the first loop.
RolesQuery ==
    /\ initPc = "start"
    /\ \E ok \in BOOLEAN :
           IF ok
           THEN /\ all_role_ids' = db_roles
                /\ role_user_map' = InsertRoles(role_user_map, db_roles)
                /\ initPc' = "member_roles"
           ELSE /\ initPc' = "err"
                /\ UNCHANGED <<all_role_ids, role_user_map>>
    /\ UNCHANGED <<db_roles, db_member_roles, all_member_roles>>
    /\ UNCHANGED <<inbox_senders, inbox_receivers, b_users, b_roles, b_message, bulkPc,
                   recipients, resolved, missed, current, delivered, bulkResult>>
    /\ UNCHANGED <<regVars, hbVars, cmpVars, wsVars, codecVars, lockVars>>

\* init: SELECT index, role_id FROM member_roles (Err(Sqlx) returns), then the
\* second loop, whose unwrap panics at a pair whose role id is not a key.
MemberRolesQuery ==
    /\ initPc = "member_roles"
    /\ \E ok \in BOOLEAN :
           IF ~ok
           THEN /\ initPc' = "err"
                /\ UNCHANGED <<all_member_roles, role_user_map>>
           ELSE /\ all_member_roles' = db_member_roles
                /\ IF \E pr \in db_member_roles : pr[2] \notin DOMAIN role_user_map
                   THEN /\ initPc' = "panicked"
                        /\ UNCHANGED role_user_map
                   ELSE /\ initPc' = "ok"
                        /\ role_user_map' = InsertMembers(role_user_map, db_member_roles)
    /\ UNCHANGED <<db_roles, db_member_roles, all_role_ids>>
    /\ UNCHANGED <<inbox_senders, inbox_receivers, b_users, b_roles, b_message, bulkPc,
                   recipients, resolved, missed, current, delivered, bulkResult>>
    /\ UNCHANGED <<regVars, hbVars, cmpVars, wsVars, codecVars, lockVars>>

\* Other sessions of the database change the tables while init runs; the
\* database keeps the foreign key: a member_roles row needs its role, and
\* deleting a role deletes its member_roles rows.
DbInsertRole(r) ==
    /\ initPc \in {"start", "member_roles"}
    /\ r \notin db_roles
    /\ db_roles' = db_roles \cup {r}
    /\ UNCHANGED <<db_member_roles, all_role_ids, all_member_roles, initPc>>
    /\ UNCHANGED <<regVars, hbVars, cmpVars, bulkVars, wsVars, codecVars, lockVars>>

DbDeleteRole(r) ==
    /\ initPc \in {"start", "member_roles"}
    /\ r \in db_roles
    /\ db_roles' = db_roles \ {r}
    /\ db_member_roles' = {pr \in db_member_roles : pr[2] # r}
    /\ UNCHANGED <<all_role_ids, all_member_roles, initPc>>
    /\ UNCHANGED <<regVars, hbVars, cmpVars, bulkVars, wsVars, codecVars, lockVars>>

DbInsertMemberRole(u, r) ==
    /\ initPc \in {"start", "member_roles"}
    /\ r \in db_roles
    /\ <<u, r>> \notin db_member_roles
    /\ db_member_roles' = db_member_roles \cup {<<u, r>>}
    /\ UNCHANGED <<db_roles, all_role_ids, all_member_roles, initPc>>
    /\ UNCHANGED <<regVars, hbVars, cmpVars, bulkVars, wsVars, codecVars, lockVars>>

DbDeleteMemberRole(u, r) ==
    /\ initPc \in {"start", "member_roles"}
    /\ <<u, r>> \in db_member_roles
    /\ db_member_roles' = db_member_roles \ {<<u, r>>}
    /\ UNCHANGED <<db_roles, all_role_ids, all_member_roles, initPc>>
    /\ UNCHANGED <<regVars, hbVars, cmpVars, bulkVars, wsVars, codecVars, lockVars>>

\* --------------------------------------------------------- GatewayPayload
\* op_code is a u8.
U8Modulus == 256
U8 == 0..(U8Modulus - 1)

\* Option::None of sequence_number, of event_name and of the event data.
NoneOpt == -1

\* serde_json::Value: a tag and a value (strings are numbered); Absent is a
\* key the object does not have.
JNum(n) == [t |-> "num", v |-> n]
JStr(x) == [t |-> "str", v |-> x]
JNull == [t |-> "null", v |-> 0]
Absent == [t |-> "absent", v |-> 0]

\* The event data type T is an Option<u64>: null or a number.
EventData == {NoneOpt, 0, 1}
SequenceNumbers == {NoneOpt, 0, 1}
EventNames == {NoneOpt, 0, 1}

Payloads ==
    [some : {TRUE}, op_code : U8, event_data : EventData,
     sequence_number : SequenceNumbers, event_name : EventNames]

NoPayload == [some |-> FALSE, op_code |-> 0, event_data |-> NoneOpt,
              sequence_number |-> NoneOpt, event_name |-> NoneOpt]

\* The JSON objects a remote can send: each key absent, or of some type.
Frames ==
    [sent : {TRUE},
     op : {Absent, JNull, JStr(0), JNum(-1), JNum(0), JNum(U8Modulus - 1), JNum(U8Modulus)},
     d : {Absent, JNull, JStr(0), JNum(1)},
     s : {Absent, JNull, JStr(0), JNum(1)},
     t : {Absent, JNull, JNum(1), JStr(1)}]

NoFrame == [sent |-> FALSE, op |-> Absent, d |-> Absent, s |-> Absent, t |-> Absent]

NotDecoded == [kind |-> "none", value |-> NoPayload, error |-> "none"]

InitCodec ==
    /\ payload = NoPayload
    /\ json = NoFrame
    /\ decoded = NotDecoded

\* T's Serialize and serde_json::from_value::<T>
DataToJson(x) == IF x = NoneOpt THEN JNull ELSE JNum(x)
DataFromJson(j) ==
    IF j.t = "null" THEN [ok |-> TRUE, value |-> NoneOpt]
    ELSE IF j.t = "num" /\ j.v >= 0 THEN [ok |-> TRUE, value |-> j.v]
    ELSE [ok |-> FALSE, value |-> NoneOpt]

\* Value::as_u64: Some for a non-negative integer, None for everything else;
\* indexing an object by a key it does not have gives Null.
AsU64(j) == IF j.t = "num" /\ j.v >= 0 THEN j.v ELSE NoneOpt

\* A Serialize that writes an absent s or t as null.
ToJson_NullOptions(p) ==
    [sent |-> TRUE,
     op |-> JNum(p.op_code),
     d |-> DataToJson(p.event_data),
     s |-> IF p.sequence_number = NoneOpt THEN JNull ELSE JNum(p.sequence_number),
     t |-> IF p.event_name = NoneOpt THEN JNull ELSE JStr(p.event_name)]

\* derive(Serialize): op, d, and s / t with skip_serializing_if = "Option::is_none"
ToJson(p) ==
    [sent |-> TRUE,
     op |-> JNum(p.op_code),
     d |-> DataToJson(p.event_data),
     s |-> IF p.sequence_number = NoneOpt THEN Absent ELSE JNum(p.sequence_number),
     t |-> IF p.event_name = NoneOpt THEN Absent ELSE JStr(p.event_name)]

Panic == [kind |-> "panic", value |-> NoPayload, error |-> "none"]
DecodeError(e) == [kind |-> "Err", value |-> NoPayload, error |-> e]

\* impl Deserialize for GatewayPayload<T>
FromJson(f) ==
    IF AsU64(f.op) = NoneOpt THEN Panic
    ELSE IF f.d = Absent THEN DecodeError("missing field d")
    ELSE IF ~DataFromJson(f.d).ok THEN DecodeError("custom")
    ELSE IF f.s # Absent /\ AsU64(f.s) = NoneOpt THEN Panic
    ELSE [kind |-> "Ok",
          value |-> [some |-> TRUE,
                     op_code |-> AsU64(f.op) % U8Modulus,
                     event_data |-> DataFromJson(f.d).value,
                     sequence_number |-> IF f.s = Absent THEN NoneOpt ELSE AsU64(f.s),
                     event_name |-> IF f.t.t = "str" THEN f.t.v ELSE NoneOpt],
          error |-> "none"]

\* serde_json::to_value(payload)
Serialize ==
    /\ payload.some
    /\ ~json.sent
    /\ json' = ToJson(payload)
    /\ UNCHANGED <<payload, decoded>>
    /\ UNCHANGED <<regVars, hbVars, cmpVars, bulkVars, wsVars, roleVars, lockVars>>

\* serde_json::from_value::<GatewayPayload<T>>(frame)
Deserialize ==
    /\ json.sent
    /\ decoded = NotDecoded
    /\ decoded' = FromJson(json)
    /\ UNCHANGED <<payload, json>>
    /\ UNCHANGED <<regVars, hbVars, cmpVars, bulkVars, wsVars, roleVars, lockVars>>

\* ---------------------------------------------------- HeartbeatHandler

\* u64 arithmetic, at a width of SeqBits bits.
U64Modulus == 2 ^ SeqBits
U64 == 0..(U64Modulus - 1)

\* a - b on u64: the wrapped value, and whether the subtraction underflowed.
U64Sub(a, b) == [value |-> (a - b) % U64Modulus, underflow |-> a < b]

Max(a, b) == IF a >= b THEN a ELSE b
Min(a, b) == IF a <= b THEN a ELSE b

\* A comparison that subtracts its arguments in the order given.
compare_sequence_numbers_Unordered(a, b) ==
    LET diff == U64Sub(a, b)
    IN  [kind |-> IF diff.value = 0 THEN "Correct"
                  ELSE IF diff.value \in 1..2 THEN "SlightlyOff"
                  ELSE "WayOff",
         diff |-> diff.value,
         underflow |-> diff.underflow]

\* A comparison whose SlightlyOff arm is 1..=3.
compare_sequence_numbers_Lenient(a, b) ==
    LET diff == U64Sub(Max(a, b), Min(a, b))
    IN  [kind |-> IF diff.value = 0 THEN "Correct"
                  ELSE IF diff.value \in 1..3 THEN "SlightlyOff"
                  ELSE "WayOff",
         diff |-> diff.value,
         underflow |-> diff.underflow]

\* A comparison whose SlightlyOff arm is 1..=1.
compare_sequence_numbers_Strict(a, b) ==
    LET diff == U64Sub(Max(a, b), Min(a, b))
    IN  [kind |-> IF diff.value = 0 THEN "Correct"
                  ELSE IF diff.value \in 1..1 THEN "SlightlyOff"
                  ELSE "WayOff",
         diff |-> diff.value,
         underflow |-> diff.underflow]

\* compare_sequence_numbers: match max - min { 0 => Correct, 1..=2 => SlightlyOff, _ => WayOff }
compare_sequence_numbers(a, b) ==
    LET diff == U64Sub(Max(a, b), Min(a, b))
    IN  [kind |-> IF diff.value = 0 THEN "Correct"
                  ELSE IF diff.value \in 1..2 THEN "SlightlyOff"
                  ELSE "WayOff",
         diff |-> diff.value,
         underflow |-> diff.underflow]

NoComparison == [kind |-> "none", diff |-> 0, underflow |-> FALSE]

\* GatewayHeartbeat.d is an Option<u64>: -1 stands for an absent d.
NoD == -1
HeartbeatD == (0..MaxHbSeq) \cup {NoD}

NoHeartbeat == [d |-> NoD, sequence |-> 0, comparison |-> NoComparison, taken |-> FALSE]

\* The handler's positions: waiting in select!, the statements of the message
\* branch, and the three ways out of run.
HbExits == {"kill_received", "returned", "timed_out"}

\* Whether connection.sender.send(..) finds a receiver.  The handler's own
\* WebSocketConnection holds a receiver of the outbound broadcast, so the send
\* fails only when sendCanFail lets the channel be without receivers.
SendOutcomes == IF sendCanFail THEN {TRUE, FALSE} ELSE {TRUE}

\* connection.sender.send(frame).unwrap_or_else(|_| kill_send.send(())): what
\* the handler has sent after it, and whether a kill signal is now pending.
Publish(frame, ok) == IF ok THEN <<frame>> ELSE <<"Kill">>

\* A handler that holds no receiver of the kill-switch.
HandlerKillReceiver_None == {}

\* self.kill_receive: the handler owns a receiver of the kill-switch for as
\* long as run borrows it.
HandlerKillReceiver == IF hbPc \in HbExits \cup {"panicked"} THEN {} ELSE {"heartbeat"}

\* self.kill_send.send(()).expect(..): a broadcast send is Err only when the
\* channel has no receiver, and expect then panics; otherwise run goes on to pc.
AfterKillSend(pc) ==
    IF otherKillReceivers \cup HandlerKillReceiver = {} THEN "panicked" ELSE pc

\* The pattern `_` of the kill branch matches every result of recv.
KillBranchDisabled == FALSE

InitHeartbeat(faults) ==
    /\ hbPc = "select"
    /\ sequence_number = 0
    /\ message_receive = <<>>
    /\ kill_receive = FALSE
    /\ emitted = <<>>
    /\ heartbeat = NoHeartbeat
    /\ timedOut = FALSE
    /\ messageDisabled = FALSE
    /\ sendersDropped = FALSE
    /\ heartbeatsSent = 0
    /\ sendCanFail = faults
    /\ otherKillReceivers = {"main"}

InitCompare ==
    /\ one = 0
    /\ two = 0
    /\ comparison = NoComparison

\* The client sends a heartbeat; the main task forwards it to the handler.
ClientHeartbeat(d) ==
    /\ hbPc \notin HbExits
    /\ ~sendersDropped
    /\ heartbeatsSent < MaxHeartbeats
    /\ heartbeatsSent' = heartbeatsSent + 1
    /\ message_receive' = Append(message_receive, d)
    /\ UNCHANGED <<hbPc, sequence_number, kill_receive, emitted, heartbeat, timedOut,
                   messageDisabled, sendersDropped, sendCanFail, otherKillReceivers>>
    /\ UNCHANGED <<regVars, cmpVars, bulkVars, wsVars, roleVars, codecVars, lockVars>>

\* The main task dispatches an event: it locks last_sequence and increments it.
\* The handler holds that lock from the comparison to the end of its match.
Dispatch ==
    /\ hbPc \notin HbExits
    /\ hbPc \notin {"send_ack", "reconnect"}
    /\ sequence_number < MaxHbSeq
    /\ sequence_number' = sequence_number + 1
    /\ UNCHANGED <<hbPc, message_receive, kill_receive, emitted, heartbeat, timedOut,
                   messageDisabled, sendersDropped, heartbeatsSent, sendCanFail, otherKillReceivers>>
    /\ UNCHANGED <<regVars, cmpVars, bulkVars, wsVars, roleVars, codecVars, lockVars>>

\* Another task of the client (the main task, GatewayClient::die) sends on the kill-switch.
ExternalKill ==
    /\ hbPc \notin HbExits
    /\ ~kill_receive
    /\ kill_receive' = TRUE
    /\ UNCHANGED <<hbPc, sequence_number, message_receive, emitted, heartbeat, timedOut,
                   messageDisabled, sendersDropped, heartbeatsSent, sendCanFail, otherKillReceivers>>
    /\ UNCHANGED <<regVars, cmpVars, bulkVars, wsVars, roleVars, codecVars, lockVars>>

\* Every other task of the client exits and drops its kill-switch receiver.
OtherTasksExit ==
    /\ hbPc \notin HbExits
    /\ otherKillReceivers # {}
    /\ otherKillReceivers' = {}
    /\ UNCHANGED <<hbPc, sequence_number, message_receive, kill_receive, emitted, heartbeat,
                   timedOut, messageDisabled, sendersDropped, heartbeatsSent, sendCanFail>>
    /\ UNCHANGED <<regVars, cmpVars, bulkVars, wsVars, roleVars, codecVars, lockVars>>

\* Time passes: now - last_heartbeat exceeds 45 s.
TimeoutElapses ==
    /\ hbPc \notin HbExits
    /\ ~timedOut
    /\ timedOut' = TRUE
    /\ UNCHANGED <<hbPc, sequence_number, message_receive, kill_receive, emitted, heartbeat,
                   messageDisabled, sendersDropped, heartbeatsSent, sendCanFail, otherKillReceivers>>
    /\ UNCHANGED <<regVars, cmpVars, bulkVars, wsVars, roleVars, codecVars, lockVars>>

\* The main task ends and drops the sender of the heartbeat channel.
DropSenders ==
    /\ hbPc \notin HbExits
    /\ ~sendersDropped
    /\ sendersDropped' = TRUE
    /\ UNCHANGED <<hbPc, sequence_number, message_receive, kill_receive, emitted, heartbeat,
                   timedOut, messageDisabled, heartbeatsSent, sendCanFail, otherKillReceivers>>
    /\ UNCHANGED <<regVars, cmpVars, bulkVars, wsVars, roleVars, codecVars, lockVars>>

\* A kill branch that takes the signal and goes on waiting in select!.
HbKillReceived_Continue ==
    /\ hbPc = "select"
    /\ kill_receive
    /\ kill_receive' = FALSE
    /\ UNCHANGED <<hbPc, sequence_number, message_receive, emitted, heartbeat, timedOut,
                   messageDisabled, sendersDropped, heartbeatsSent, sendCanFail, otherKillReceivers>>
    /\ UNCHANGED <<regVars, cmpVars, bulkVars, wsVars, roleVars, codecVars, lockVars>>

\* select!: _ = self.kill_receive.recv() => break
HbKillReceived ==
    /\ hbPc = "select"
    /\ kill_receive
    /\ kill_receive' = FALSE
    /\ hbPc' = "kill_received"
    /\ UNCHANGED <<sequence_number, message_receive, emitted, heartbeat, timedOut,
                   messageDisabled, sendersDropped, heartbeatsSent, sendCanFail, otherKillReceivers>>
    /\ UNCHANGED <<regVars, cmpVars, bulkVars, wsVars, roleVars, codecVars, lockVars>>

\* A message branch that treats an absent d like a correct sequence number.
HbReceiveHeartbeat_AckAbsent ==
    /\ hbPc = "select"
    /\ ~messageDisabled
    /\ message_receive # <<>>
    /\ LET d == Head(message_receive)
           cmp == IF d = NoD THEN NoComparison
                  ELSE compare_sequence_numbers(sequence_number, d)
       IN  /\ heartbeat' = [d |-> d, sequence |-> sequence_number, comparison |-> cmp,
                            taken |-> TRUE]
           /\ hbPc' = IF cmp.kind = "WayOff" THEN "reconnect" ELSE "send_ack"
    /\ message_receive' = Tail(message_receive)
    /\ emitted' = <<>>
    /\ UNCHANGED <<sequence_number, kill_receive, timedOut, messageDisabled,
                   sendersDropped, heartbeatsSent, sendCanFail, otherKillReceivers>>
    /\ UNCHANGED <<regVars, cmpVars, bulkVars, wsVars, roleVars, codecVars, lockVars>>

\* select!: Ok(heartbeat) = self.message_receive.recv() => if let Some(d) = heartbeat.d
\* { lock sequence_number; match compare_sequence_numbers(*sequence, d) .. }
HbReceiveHeartbeat ==
    /\ hbPc = "select"
    /\ ~messageDisabled
    /\ message_receive # <<>>
    /\ LET d == Head(message_receive)
           cmp == IF d = NoD THEN NoComparison
                  ELSE compare_sequence_numbers(sequence_number, d)
       IN  /\ heartbeat' = [d |-> d, sequence |-> sequence_number, comparison |-> cmp,
                            taken |-> TRUE]
           /\ hbPc' = IF d = NoD THEN "last_heartbeat"
                      ELSE IF cmp.kind = "WayOff" THEN "reconnect"
                      ELSE "send_ack"
    /\ message_receive' = Tail(message_receive)
    /\ emitted' = <<>>
    /\ UNCHANGED <<sequence_number, kill_receive, timedOut, messageDisabled,
                   sendersDropped, heartbeatsSent, sendCanFail, otherKillReceivers>>
    /\ UNCHANGED <<regVars, cmpVars, bulkVars, wsVars, roleVars, codecVars, lockVars>>

\* Correct | SlightlyOff => self.send_ack().await; the lock on sequence_number
\* is released at the end of the if-let block.
HbSendAck ==
    /\ hbPc = "send_ack"
    /\ \E ok \in SendOutcomes :
           /\ emitted' = emitted \o Publish("HeartbeatAck", ok)
           /\ kill_receive' = (kill_receive \/ ~ok)
           /\ hbPc' = IF ok THEN "last_heartbeat" ELSE AfterKillSend("last_heartbeat")
    /\ UNCHANGED <<sequence_number, message_receive, heartbeat, timedOut, messageDisabled,
                   sendersDropped, heartbeatsSent, sendCanFail, otherKillReceivers>>
    /\ UNCHANGED <<regVars, cmpVars, bulkVars, wsVars, roleVars, codecVars, lockVars>>

\* WayOff => send Reconnect (kill on failure); kill_send.send(()); return
HbReconnect ==
    /\ hbPc = "reconnect"
    /\ \E ok \in SendOutcomes :
           emitted' = emitted \o Publish("Reconnect", ok) \o <<"Kill">>
    /\ kill_receive' = TRUE
    /\ hbPc' = AfterKillSend("returned")
    /\ UNCHANGED <<sequence_number, message_receive, heartbeat, timedOut, messageDisabled,
                   sendersDropped, heartbeatsSent, sendCanFail, otherKillReceivers>>
    /\ UNCHANGED <<regVars, cmpVars, bulkVars, wsVars, roleVars, codecVars, lockVars>>

\* self.last_heartbeat = Instant::now(); send HeartbeatAck (kill on failure);
\* the loop enters select! again.
HbLastHeartbeat ==
    /\ hbPc = "last_heartbeat"
    /\ timedOut' = FALSE
    /\ \E ok \in SendOutcomes :
           /\ emitted' = emitted \o Publish("HeartbeatAck", ok)
           /\ kill_receive' = (kill_receive \/ ~ok)
           /\ hbPc' = IF ok THEN "select" ELSE AfterKillSend("select")
    /\ messageDisabled' = FALSE
    /\ UNCHANGED <<sequence_number, message_receive, heartbeat, sendersDropped,
                   heartbeatsSent, sendCanFail, otherKillReceivers>>
    /\ UNCHANGED <<regVars, cmpVars, bulkVars, wsVars, roleVars, codecVars, lockVars>>

\* select!: message_receive.recv() gives Err(Closed), which does not match
\* Ok(heartbeat): the branch is disabled.  The else branch runs only when every
\* branch is disabled; otherwise select! goes on waiting for the other branches.
\* else => if elapsed > 45 s { kill_send.send(()); break }
HbReceiveError ==
    /\ hbPc = "select"
    /\ ~messageDisabled
    /\ message_receive = <<>>
    /\ sendersDropped
    /\ IF KillBranchDisabled
       THEN /\ hbPc' = IF timedOut THEN AfterKillSend("timed_out") ELSE "select"
            /\ emitted' = IF timedOut THEN emitted \o <<"Kill">> ELSE emitted
            /\ kill_receive' = (kill_receive \/ timedOut)
            /\ UNCHANGED messageDisabled
       ELSE /\ messageDisabled' = TRUE
            /\ UNCHANGED <<hbPc, emitted, kill_receive>>
    /\ UNCHANGED <<sequence_number, message_receive, heartbeat, timedOut, sendersDropped,
                   heartbeatsSent, sendCanFail, otherKillReceivers>>
    /\ UNCHANGED <<regVars, cmpVars, bulkVars, wsVars, roleVars, codecVars, lockVars>>

\* The steps of HeartbeatHandler::run.
HbRun ==
    \/ HbKillReceived
    \/ HbReceiveHeartbeat
    \/ HbSendAck
    \/ HbReconnect
    \/ HbLastHeartbeat
    \/ HbReceiveError

InitHB == InitRegistry /\ InitHeartbeat(FALSE) /\ InitCompare /\ InitBulk(Snowflakes) /\ InitWS /\ InitRoles /\ InitCodec /\ InitLocks

NextHB ==
    \/ \E d \in HeartbeatD : ClientHeartbeat(d)
    \/ Dispatch
    \/ ExternalKill
    \/ OtherTasksExit
    \/ TimeoutElapses
    \/ DropSenders
    \/ HbKillReceived
    \/ HbReceiveHeartbeat
    \/ HbSendAck
    \/ HbReconnect
    \/ HbLastHeartbeat
    \/ HbReceiveError

SpecHB == InitHB /\ [][NextHB]_vars

\* The runtime schedules a task that can take a step, and select! polls its
\* ready branches in random order: a kill branch that is ready again and again
\* is taken.
FairSpecHB == InitHB /\ [][NextHB]_vars /\ WF_vars(HbRun) /\ SF_vars(HbKillReceived)

\* The same handler on a connection whose outbound broadcast may have lost
\* every receiver, so that sender.send(..) can give Err.
InitHBFaults == InitRegistry /\ InitHeartbeat(TRUE) /\ InitCompare /\ InitBulk(Snowflakes) /\ InitWS /\ InitRoles /\ InitCodec /\ InitLocks

SpecHBFaults == InitHBFaults /\ [][NextHB]_vars

\* ----------------------------------------------- compare_sequence_numbers
InitCmp ==
    /\ InitRegistry
    /\ InitHeartbeat(FALSE)
    /\ InitBulk(Snowflakes)
    /\ InitWS /\ InitRoles /\ InitCodec /\ InitLocks
    /\ one \in U64
    /\ two \in U64
    /\ comparison = NoComparison

Compare ==
    /\ comparison = NoComparison
    /\ comparison' = compare_sequence_numbers(one, two)
    /\ UNCHANGED <<one, two, regVars, hbVars, bulkVars, wsVars, roleVars, codecVars, lockVars>>

NextCmp == Compare

SpecCmp == InitCmp /\ [][NextCmp]_vars

\* ------------------------------------------------------------ registry
Init == InitRegistry /\ InitHeartbeat(FALSE) /\ InitCompare /\ InitBulk(Snowflakes) /\ InitWS /\ InitRoles /\ InitCodec /\ InitLocks

Next ==
    \/ \E t \in Tasks, id \in UserIds : GetUserOrNew(t, id)
    \/ \E t \in Tasks, id \in UserIds : NewUser(t, id)
    \/ \E t \in Tasks : RegisterInboxes(t)
    \/ \E t \in Tasks : RegisterUsers(t)
    \/ \E t \in Tasks, o \in Objects : Deregister(t, o)
    \/ \E t \in Tasks : DeregisterInboxes(t)
    \/ \E t \in Tasks : DeregisterUsers(t)
    \/ \E t \in Tasks, o \in Objects, tok \in Tokens : NewClient(t, o, tok)
    \/ \E c \in Clients : BumpSequence(c)
    \/ \E t \in Tasks, c \in Clients : DieKill(t, c)
    \/ \E t \in Tasks : DieInfo(t)
    \/ \E t \in Tasks : DieRemove(t)
    \/ \E t \in Tasks : DieLock(t)
    \/ \E t \in Tasks : DieResume(t)

Spec == Init /\ [][Next]_vars

\* ------------------------------------------------- registry, lifetimes
\* The registry with the ends of its objects: user objects nobody holds are
\* dropped, and the tasks of a client exit before die is called.
NextLife ==
    \/ Next
    \/ \E o \in Objects : DropUser(o)
    \/ \E c \in Clients : ClientTasksExit(c)

SpecLife == Init /\ [][NextLife]_vars

\* ------------------------------------------------------- one client
\* A registered user with one client (after get_user_or_new and new_client),
\* the client's heartbeat task, the dispatches of its main task, and its death.
InitOneClient ==
    /\ inboxes = [id \in UserIds |-> IF id = 1 THEN 1 ELSE None]
    /\ users = [id \in UserIds |-> IF id = 1 THEN 1 ELSE None]
    /\ resumeable_clients_store = [tok \in Tokens |-> NoInfo]
    /\ userId = [o \in Objects |-> IF o = 1 THEN 1 ELSE None]
    /\ clients = [o \in Objects |-> IF o = 1 THEN [NoClients EXCEPT ![1] = 1] ELSE NoClients]
    /\ userLock = [o \in Objects |-> NoTask]
    /\ parent = [c \in Clients |-> IF c = 1 THEN 1 ELSE None]
    /\ session_token = [c \in Clients |-> IF c = 1 THEN 1 ELSE None]
    /\ clientState = [c \in Clients |-> IF c = 1 THEN "alive" ELSE "none"]
    /\ last_sequence = [c \in Clients |-> 0]
    /\ seqAtDeath = [c \in Clients |-> 0]
    /\ task = [t \in Tasks |-> IdleTask]
    /\ calls = 2

InitClient ==
    /\ InitOneClient /\ InitHeartbeat(FALSE) /\ InitCompare /\ InitBulk(Snowflakes)
    /\ InitWS /\ InitRoles /\ InitCodec /\ InitLocks

\* The client whose heartbeat task is modelled: HeartbeatHandler.sequence_number
\* and GatewayClient.last_sequence are clones of one Arc<Mutex<u64>>.
TheClient == 1

\* The main task dispatches an event to the client: it locks the shared counter
\* (not while the handler holds it) and increments it.
ClientDispatch ==
    /\ clientState[TheClient] \in {"alive", "dying"}
    /\ hbPc \notin {"send_ack", "reconnect"}
    /\ sequence_number < MaxHbSeq
    /\ sequence_number' = sequence_number + 1
    /\ last_sequence' = [last_sequence EXCEPT ![TheClient] = @ + 1]
    /\ UNCHANGED <<inboxes, users, resumeable_clients_store, userId, clients, userLock,
                   parent, session_token, clientState, seqAtDeath, task, calls>>
    /\ UNCHANGED <<hbPc, message_receive, kill_receive, emitted, heartbeat, timedOut,
                   messageDisabled, sendersDropped, heartbeatsSent, sendCanFail, otherKillReceivers>>
    /\ UNCHANGED <<cmpVars, bulkVars, wsVars, roleVars, codecVars, lockVars>>

\* The task that owns the client and calls die on it.
MainTask == "t1"

\* die: self.kill_send.send(()).unwrap() reaches the handler's kill_receive.
ClientDie(t) ==
    /\ t = MainTask
    /\ task[t].pc = "idle"
    /\ clientState[TheClient] = "alive"
    /\ calls < MaxCalls
    /\ calls' = calls + 1
    /\ clientState' = [clientState EXCEPT ![TheClient] = "dying"]
    /\ task' = [task EXCEPT ![t] = [IdleTask EXCEPT !.op = "die", !.pc = "die_info",
                                    !.id = userId[parent[TheClient]],
                                    !.user = parent[TheClient], !.client = TheClient]]
    /\ kill_receive' = TRUE
    /\ UNCHANGED <<inboxes, users, resumeable_clients_store, userId, clients, userLock,
                   parent, session_token, last_sequence, seqAtDeath>>
    /\ UNCHANGED <<hbPc, sequence_number, message_receive, emitted, heartbeat, timedOut,
                   messageDisabled, sendersDropped, heartbeatsSent, sendCanFail, otherKillReceivers>>
    /\ UNCHANGED <<cmpVars, bulkVars, wsVars, roleVars, codecVars, lockVars>>

NextClient ==
    \/ \E d \in HeartbeatD : ClientHeartbeat(d)
    \/ ClientDispatch
    \/ TimeoutElapses
    \/ DropSenders
    \/ HbKillReceived
    \/ HbReceiveHeartbeat
    \/ HbSendAck
    \/ HbReconnect
    \/ HbLastHeartbeat
    \/ HbReceiveError
    \/ \E t \in Tasks : ClientDie(t)
    \/ \E t \in Tasks : DieInfo(t)
    \/ \E t \in Tasks : DieRemove(t)
    \/ \E t \in Tasks : DieLock(t)
    \/ \E t \in Tasks : DeregisterInboxes(t)
    \/ \E t \in Tasks : DeregisterUsers(t)
    \/ \E t \in Tasks : DieResume(t)

SpecClient == InitClient /\ [][NextClient]_vars

\* ------------------------------------------------------ bulk messages
\* A builder and one send of it, over every registry the three users can be in.
InitBulkSend ==
    /\ InitRegistry /\ InitHeartbeat(FALSE) /\ InitCompare /\ InitWS /\ InitRoles /\ InitCodec /\ InitLocks
    /\ \E registered \in SUBSET Snowflakes : InitBulk(registered)

NextBulk ==
    \/ \E u \in Snowflakes : AddUserRecipients(u)
    \/ \E r \in RoleIds : AddRoleRecipients(r)
    \/ SetMessage
    \/ BulkSend
    \/ \E r \in Snowflakes : BulkLookup(r)
    \/ BulkPublish
    \/ \E u \in Snowflakes : BulkDeregister(u)
    \/ \E u \in Snowflakes : BulkDropUser(u)

SpecBulk == InitBulkSend /\ [][NextBulk]_vars

\* ---------------------------------------------------- websocket tasks
InitWebSocket ==
    InitRegistry /\ InitHeartbeat(FALSE) /\ InitCompare /\ InitBulk(Snowflakes) /\ InitWS /\ InitRoles /\ InitCodec /\ InitLocks

NextWS ==
    \/ WsSend
    \/ WsDropHandles
    \/ WsSenderForward
    \/ WsSenderRecvError
    \/ WsStreamFrame
    \/ WsStreamError
    \/ WsStreamEnd

SpecWS == InitWebSocket /\ [][NextWS]_vars

\* ------------------------------------------------------ role map init
\* One RoleUserMap::init on an empty map, over every database that keeps the
\* foreign key.
InitRoleUserMap ==
    /\ InitRegistry /\ InitHeartbeat(FALSE) /\ InitCompare /\ InitWS /\ InitCodec /\ InitLocks
    /\ InitBuilder(Snowflakes)
    /\ role_user_map = NoRoles
    /\ \E roles \in SUBSET DbRoleIds, pairs \in SUBSET (DbUserIds \X DbRoleIds) :
           ForeignKey(roles, pairs) /\ InitDb(roles, pairs)

NextRoles ==
    \/ RolesQuery
    \/ MemberRolesQuery
    \/ \E r \in DbRoleIds : DbInsertRole(r)
    \/ \E r \in DbRoleIds : DbDeleteRole(r)
    \/ \E u \in DbUserIds, r \in DbRoleIds : DbInsertMemberRole(u, r)
    \/ \E u \in DbUserIds, r \in DbRoleIds : DbDeleteMemberRole(u, r)

SpecRoles == InitRoleUserMap /\ [][NextRoles]_vars

\* ------------------------------------------------------ payload codec
\* Either a payload of the server to encode, or a frame of the remote to decode.
InitPayload ==
    /\ InitRegistry /\ InitHeartbeat(FALSE) /\ InitCompare /\ InitBulk(Snowflakes)
    /\ InitWS /\ InitRoles /\ InitLocks
    /\ decoded = NotDecoded
    /\ \/ payload \in Payloads /\ json = NoFrame
       \/ payload = NoPayload /\ json \in Frames

NextCodec == Serialize \/ Deserialize

SpecCodec == InitPayload /\ [][NextCodec]_vars

\* --------------------------------------------- lock order of the gateway
SpecLocks == Init /\ [][NextLocks]_vars

\* ------------------------------------------------------------- claims

\* The task that takes the step, when it is in the middle of operation op.
Steps(t, op) == task[t].op = op /\ task'[t] # task[t]

\* C1: in every reachable state a user id is a key of inboxes if and only if
\* it is a key of users.
C1_InboxesIffUsers ==
    \A id \in UserIds : (inboxes[id] # None) <=> (users[id] # None)

\* C2: get_user_or_new never replaces a user that is registered under the id:
\* when its register inserts into users, no user is registered under that id
\* (so concurrent calls with one id create and return one user).
C2_GetUserOrNewAtomic ==
    [][\A t \in Tasks :
          (Steps(t, "get_user_or_new") /\ task[t].pc = "register_users")
              => users[task[t].id] = None]_vars

\* C3: die removes the parent from users or inboxes only when the dying client
\* was the parent's last client: a user that still has a client in its client
\* map stays registered.
C3_DieDeregistersOnlyLastClient ==
    [][\A t \in Tasks :
          (Steps(t, "die") /\ (users' # users \/ inboxes' # inboxes))
              => \A tok \in Tokens : clients[task[t].user][tok] = None]_vars

\* C4: every client created by new_client that has not died is the value of its
\* parent's client map at its session token.
C4_ClientInParentMap ==
    \A c \in Clients :
        clientState[c] = "alive" => clients[parent[c]][session_token[c]] = c

\* The step with which die of client c returns.
DieCompletes(t) == Steps(t, "die") /\ task[t].pc = "die_resume"

\* What the resume store must hold for the client of task t when its die returns.
RecordedAtDeath(t) ==
    [session_token |-> session_token[task[t].client],
     disconnected_at_sequence |-> seqAtDeath[task[t].client],
     parent |-> task[t].user]

\* C5 (as claimed): when die completes, the session token is no key of the
\* parent's client map and the resume store maps it to the DisconnectInfo with
\* that token and the last_sequence die read.
C5_DieCompletes_Claim ==
    [][\A t \in Tasks :
          DieCompletes(t) =>
              /\ clients'[task[t].user][session_token[task[t].client]] = None
              /\ resumeable_clients_store'[session_token[task[t].client]]
                     = RecordedAtDeath(t)]_vars

\* C5 (amended): when die completes, the parent's client map does not map the
\* session token to the dead client (the token is a key only if a new_client
\* inserted another client under it after die's removal), and the resume
\* store maps the token to the DisconnectInfo with that token and the
\* last_sequence die read.
C5_DieCompletes ==
    [][\A t \in Tasks :
          DieCompletes(t) =>
              /\ clients'[task[t].user][session_token[task[t].client]] # task[t].client
              /\ resumeable_clients_store'[session_token[task[t].client]]
                     = RecordedAtDeath(t)]_vars

\* A die has returned after the client's sequence number had advanced.
C5_Witness ==
    \E c \in Clients, tok \in Tokens :
        /\ clientState[c] = "dead"
        /\ resumeable_clients_store[tok].session_token = tok
        /\ resumeable_clients_store[tok].disconnected_at_sequence = MaxSeq

\* What the handler sent, as a set.
Emitted == {emitted[i] : i \in 1..Len(emitted)}

\* |L - R| of the latest heartbeat taken, which carried a sequence number.
HeartbeatDiff ==
    IF heartbeat.sequence >= heartbeat.d THEN heartbeat.sequence - heartbeat.d
                                         ELSE heartbeat.d - heartbeat.sequence

HasSequence == heartbeat.taken /\ heartbeat.d # NoD

\* The handler is through with the heartbeat it took.
Processed == hbPc \in {"select"} \cup HbExits

\* C6: a Heartbeat whose d equals last_sequence makes the handler publish
\* exactly one HeartbeatAck and nothing else.
C6_CorrectHeartbeatOneAck ==
    (HasSequence /\ HeartbeatDiff = 0 /\ Processed) => emitted = <<"HeartbeatAck">>

\* C7: a Heartbeat whose sequence differs from last_sequence by 3 or more makes
\* the handler publish a Reconnect frame, then send on the kill-switch, publish
\* no HeartbeatAck, and return without taking another heartbeat.
C7_WayOffReconnectsAndKills ==
    (HasSequence /\ HeartbeatDiff >= 3) =>
        \/ hbPc = "reconnect" /\ emitted = <<>>
        \/ hbPc = "returned" /\ emitted = <<"Reconnect", "Kill">>

\* The handler has returned after a heartbeat that was off by 3.
C7_Witness ==
    HasSequence /\ HeartbeatDiff >= 3 /\ hbPc = "returned" /\ "Reconnect" \in Emitted

\* C8: compare_sequence_numbers(L, R) is Correct iff |L-R| = 0, SlightlyOff(|L-R|)
\* iff 1 <= |L-R| <= 2, WayOff(|L-R|) iff |L-R| >= 3, the same for (R, L), and
\* its subtraction does not underflow.
C8_CompareSequenceNumbers ==
    comparison # NoComparison =>
        LET d == IF one >= two THEN one - two ELSE two - one
        IN  /\ ~comparison.underflow
            /\ comparison.diff = d
            /\ (comparison.kind = "Correct") <=> (d = 0)
            /\ (comparison.kind = "SlightlyOff") <=> (d \in 1..2)
            /\ (comparison.kind = "WayOff") <=> (d >= 3)
            /\ compare_sequence_numbers(two, one) = comparison

\* The comparison was applied to a smaller first argument, far from the second.
C8_Witness ==
    comparison.kind = "WayOff" /\ one < two /\ two = U64Modulus - 1

\* C9: a Heartbeat whose sequence differs from last_sequence by 1 or 2 makes the
\* handler publish a HeartbeatAck, no Reconnect and no kill signal, and the
\* handler goes on with its loop (it leaves it only for a kill signal of
\* another task).
C9_SlightlyOffAcksAndRuns ==
    (HasSequence /\ HeartbeatDiff \in 1..2) =>
        /\ hbPc \in {"send_ack", "last_heartbeat", "select", "kill_received"}
        /\ "Reconnect" \notin Emitted
        /\ "Kill" \notin Emitted
        /\ hbPc \in {"last_heartbeat", "select", "kill_received"}
               => "HeartbeatAck" \in Emitted

\* The handler is back in select! after a heartbeat that was off by 2.
C9_Witness ==
    /\ HasSequence /\ HeartbeatDiff = 2
    /\ hbPc = "select" /\ ~messageDisabled
    /\ "HeartbeatAck" \in Emitted

\* C10: a running handler that has seen no heartbeat for longer than the
\* timeout goes on to send on the kill-switch and terminate, also when no
\* heartbeat and no kill signal arrives: with nothing to receive, the
\* timed-out handler has a step to take.
C10_TimeoutKills ==
    (timedOut /\ hbPc = "select" /\ message_receive = <<>> /\ ~kill_receive /\ ~sendersDropped)
        => ENABLED HbRun

\* C11: once a kill signal has been sent on the kill-switch, the handler
\* eventually leaves its loop and run ends, whatever heartbeats are pending.
C11_KillTerminates == kill_receive ~> (hbPc \in HbExits)

\* run has ended on a kill signal while a heartbeat was still unread.
C11_Witness == hbPc = "kill_received" /\ message_receive # <<>>

\* The handler sends on its kill-switch before a frame only when a publish failed.
SendFailed == "Kill" \in Emitted

SendReturned == bulkPc = "done" /\ b_message

\* The users of the role sets of the role ids added to the builder.
RoleExpanded ==
    UNION {role_user_map[r] : r \in Range(b_roles) \cap DOMAIN role_user_map}

\* C13: send delivers to the union of explicit and role-expanded user ids:
\* every registered user added with add_user_recipients has received the
\* message exactly once when send returns, also when no role id was added.
C13_ExplicitUsersReceive ==
    SendReturned =>
        \A u \in Range(b_users) : u \in inbox_senders => delivered[u] = 1

\* C14: when send returns, every registered user of the role sets of the added
\* roles has received the message exactly once, and no inbox outside the
\* builder's recipients has received anything.
C14_RoleUsersReceiveOnce ==
    SendReturned =>
        \A u \in Snowflakes :
            /\ delivered[u] <= 1
            /\ (u \in RoleExpanded /\ u \in inbox_senders) => delivered[u] = 1
            /\ (u \notin RoleExpanded \cup Range(b_users)) => delivered[u] = 0

\* C15: send on a builder without a message returns "No message to send"
\* and publishes into no inbox, whatever recipients were added.
C15_NoMessage ==
    (bulkPc = "done" /\ ~b_message) =>
        /\ bulkResult = "No message to send"
        /\ \A u \in Snowflakes : delivered[u] = 0

\* send has returned for a builder with user and role recipients and no message.
C15_Witness ==
    /\ bulkPc = "done" /\ ~b_message
    /\ b_users # <<>>
    /\ Range(b_roles) \cap DOMAIN role_user_map # {}
    /\ inbox_senders # {}

\* C16: when a resolved recipient had no inbox in the registry, send still
\* returns Ok and every other resolved recipient that has an inbox has
\* received the message.
C16_MissingInboxSkipped ==
    (SendReturned /\ missed # {}) =>
        /\ bulkResult = "Ok"
        /\ \A u \in resolved \ missed : u \in inbox_senders => delivered[u] = 1

\* C17: when a publish into one recipient's inbox fails, send returns the
\* broadcast error, and every other resolved recipient that has an inbox has
\* received the message: only the failing recipient is skipped.
C17_OnlyFailedSkipped ==
    (SendReturned /\ bulkResult = "tokio broadcast error") =>
        \A u \in resolved \ {current} : u \in inbox_senders => delivered[u] = 1

\* C18: inbound and outbound traffic are on separate channels: no frame read
\* from the stream is written to the sink, and no frame sent for the remote
\* is delivered to the subscribers of `receiver`.
C18_SeparateChannels ==
    /\ "In" \notin Range(sink)
    /\ "Out" \notin Range(received)

\* C19 as claimed: whenever a task ends on a sink failure, a stream failure or
\* the end of the stream, its Close frame has been published on the channel.
C19_ClosePublished_Claim ==
    /\ wsSenderPc = "sink_failed" => "sender" \in closePublished
    /\ wsReceiverPc \in {"stream_failed", "stream_ended"} => "receiver" \in closePublished

\* C19: a task that ends on a sink failure, a stream failure or the end of the
\* stream sends a Close frame before it returns; the frame reaches every
\* receiver the channel has at that moment (the live handles, the running
\* sender task) and is published unless the channel has no receiver.
C19_CloseSent ==
    [][/\ (wsReceiverPc = "next" /\ wsReceiverPc' \in {"stream_failed", "stream_ended"}) =>
            /\ handles => received' = Append(received, "Close")
            /\ wsSenderPc = "recv" =>
                   receiver_sender_task'[Len(receiver_sender_task')] = "Close"
            /\ HasReceiver => "receiver" \in closePublished'
       /\ (wsSenderPc = "recv" /\ wsSenderPc' = "sink_failed") =>
            /\ handles => received' = Append(received, "Close")
            /\ "sender" \in closePublished'
      ]_vars

\* Both tasks have ended on a failure, and the Close frame of each was published.
C19_Witness ==
    /\ wsSenderPc = "sink_failed"
    /\ wsReceiverPc = "stream_ended"
    /\ closePublished = {"sender", "receiver"}
    /\ Len(received) >= 2

\* C20: after the stream has failed or ended and the receiver task has
\* returned, the sender task is not left waiting: it has a step to take
\* towards its own end.
C20_BothTasksTerminate ==
    (wsReceiverPc \in {"stream_failed", "stream_ended"} /\ wsSenderPc = "recv")
        => ENABLED WsSenderTask

\* C21: a lagging receiver kills the client and is never dropped silently:
\* when the sender task has returned on the Lagged error of its receiver, a
\* kill signal has been sent or the task has published its Close frame.
C21_LagKills ==
    wsSenderPc = "recv_failed" => (kill_receive \/ "sender" \in closePublished)

\* C22: no caller holds the lock of a user while it calls deregister on it:
\* a task running GatewayClient::die is never inside ConnectedUsers::deregister
\* while it holds the lock of the parent user.
C22_NoUserLockInDeregister ==
    \A t \in Tasks :
        (task[t].op = "die" /\ task[t].pc \in {"deregister_inboxes", "deregister_users"})
            => userLock[task[t].user] # t

\* The roles a member_roles row of the query result names.
PairedRoles == {pr[2] : pr \in all_member_roles}

\* C23: after init has returned Ok, every role id the roles query returned is
\* a key of the map, with an empty set when no member-role pair names it.
C23_QueriedRolesAreKeys ==
    initPc = "ok" =>
        \A r \in all_role_ids :
            /\ r \in DOMAIN role_user_map
            /\ r \notin PairedRoles => role_user_map[r] = {}

\* init has returned Ok with a role that has members and a role that has none.
C23_Witness ==
    /\ initPc = "ok"
    /\ all_role_ids \ PairedRoles # {}
    /\ all_role_ids \cap PairedRoles # {}

\* C24: decoding the JSON encoding of a payload gives the payload back; an
\* absent s or t is encoded by omitting the key and decodes as absent.
C24_RoundTrip ==
    /\ (payload.some /\ json.sent) =>
            /\ (payload.sequence_number = NoneOpt) <=> (json.s = Absent)
            /\ (payload.event_name = NoneOpt) <=> (json.t = Absent)
    /\ (payload.some /\ decoded # NotDecoded) =>
            /\ decoded.kind = "Ok"
            /\ decoded.value = payload

\* A payload with the highest op code, without s and with t, has gone round.
C24_Witness ==
    /\ payload.some
    /\ decoded.kind = "Ok"
    /\ payload.op_code = U8Modulus - 1
    /\ payload.sequence_number = NoneOpt
    /\ payload.event_name # NoneOpt

\* C25: decoding a frame without op or without d gives an error value and
\* does not panic; a frame that has op and d but lacks s or t decodes, with
\* those fields absent.
C25_MissingFields ==
    (~payload.some /\ decoded # NotDecoded) =>
        /\ (json.op = Absent \/ json.d = Absent) => decoded.kind = "Err"
        /\ (AsU64(json.op) # NoneOpt /\ DataFromJson(json.d).ok /\ json.d # Absent
               /\ json.s = Absent /\ json.t = Absent) =>
              /\ decoded.kind = "Ok"
              /\ decoded.value.sequence_number = NoneOpt
              /\ decoded.value.event_name = NoneOpt

\* C28: after init has returned Ok on an empty map, a user is in the set of
\* a role exactly when the member_roles query returned that pair.
C28_MembersMatchPairs ==
    initPc = "ok" =>
        /\ \A pr \in all_member_roles : pr[2] \in DOMAIN role_user_map
        /\ \A r \in DOMAIN role_user_map : \A u \in DbUserIds :
               u \in role_user_map[r] <=> <<u, r>> \in all_member_roles

\* init has returned Ok with a user in one role and not in the other.
C28_Witness ==
    /\ initPc = "ok"
    /\ \E u \in DbUserIds : \E r1, r2 \in DOMAIN role_user_map :
           u \in role_user_map[r1] /\ u \notin role_user_map[r2] /\ role_user_map[r2] # {}

\* C29: init never meets a member-role pair whose role id is not a key of
\* the map: the unwrap of the lookup never panics.
C29_NoOrphanPair == initPc # "panicked"

\* C26: the parent of a resume store entry can still be upgraded: the user
\* object is not dropped while the entry is in the store.
C26_ResumeParentAlive ==
    \A tok \in Tokens :
        resumeable_clients_store[tok].parent # None
            => userLock[resumeable_clients_store[tok].parent] # Dropped

\* C27: GatewayClient::die never panics.
C27_DieNeverPanics == \A t \in Tasks : task[t].pc # "panicked"

\* A step of GatewayClient::die by task t.
DieStep(t) == task'[t] # task[t] /\ "die" \in {task[t].op, task'[t].op}

\* C30: no step of HeartbeatHandler::run and no step of GatewayClient::die
\* changes the shared last_sequence.
C30_SequenceOnlyRead ==
    [][/\ HbRun => sequence_number' = sequence_number
       /\ (\E t \in Tasks : DieStep(t)) => last_sequence' = last_sequence]_vars

\* In the one-client specification both handles show the same counter.
SharedCounter == sequence_number = last_sequence[TheClient]

\* The handler has compared a heartbeat with a sequence number above 0, and
\* die has completed for a client whose last_sequence is above 0.
C30_Witness ==
    /\ heartbeat.taken /\ heartbeat.d # NoD /\ heartbeat.sequence > 0
    /\ \E c \in Clients : clientState[c] = "dead" /\ last_sequence[c] > 0

\* The latest heartbeat taken carried no sequence number.
AbsentD == heartbeat.taken /\ heartbeat.d = NoD

\* C32: a Heartbeat without a sequence number is taken without a comparison;
\* the handler then refreshes last_heartbeat, publishes exactly one
\* HeartbeatAck, sends nothing on the kill-switch and is back in select!.
C32_AbsentSequenceAcksOnce ==
    [][/\ (HbReceiveHeartbeat /\ Head(message_receive) = NoD)
           => (hbPc' = "last_heartbeat" /\ emitted' = <<>> /\ kill_receive' = kill_receive)
       /\ (AbsentD /\ hbPc = "last_heartbeat" /\ hbPc' # hbPc)
           => /\ emitted' = <<"HeartbeatAck">>
              /\ ~timedOut'
              /\ kill_receive' = kill_receive
              /\ hbPc' = "select"
       /\ (AbsentD /\ hbPc' \in HbExits /\ hbPc' # hbPc) => hbPc' = "kill_received"]_vars

\* The handler is back in select! after a heartbeat without a sequence number.
C32_Witness ==
    /\ AbsentD /\ hbPc = "select" /\ ~messageDisabled
    /\ emitted = <<"HeartbeatAck">> /\ ~timedOut

\* Task t waits in lock().await for a Mutex that some task holds.
Blocked(t) ==
    /\ lockScript[t] # <<>>
    /\ Head(lockScript[t]).a = "lock"
    /\ lockHolder[Head(lockScript[t]).l] # NoTask

WaitsFor(t) == lockHolder[Head(lockScript[t]).l]

C33_KillSendSucceeds == hbPc # "panicked"

\* The handler has sent on the kill-switch and returned after every other
\* task had dropped its receiver.
C33_Witness ==
    /\ otherKillReceivers = {} /\ hbPc = "returned" /\ "Kill" \in Emitted

====
